---- MODULE Spec2Model ----
(***************************************************************************)
(* NBA props dashboard (React component NBAPropsDashboard).                *)
(*                                                                         *)
(* Nine specifications share this module:                                  *)
(*   Spec        the component's asynchronous state machine: the mount     *)
(*               request for today's date, the date effect, the            *)
(*               auto-refresh interval effect, fetchAllData and            *)
(*               handleFullRefresh;                                        *)
(*   SpecStakes  the pure stake arithmetic calculateStakes and the         *)
(*               arbitrage card that displays it with toFixed(2);          *)
(*   SpecGroup   groupedProps over lists of quotes, and the rows of the    *)
(*               all-props view under the sportsbook select;               *)
(*   SpecView    filteredData over a loaded snapshot, driven by the tab    *)
(*               buttons and the filter and sort controls;                 *)
(*   SpecFav     toggleFavorite, isFavorite and the favorites filter;      *)
(*   SpecRank    filteredData over records whose ranking field may be      *)
(*               missing or null;                                          *)
(*   SpecStore   the favorites loaded from localStorage at mount, star     *)
(*               clicks, and the requests of the component;                *)
(*   SpecMount   Spec with the /today request and the first batch          *)
(*               settling in the end;                                      *)
(*   SpecRefresh Spec with the requests a full refresh awaits settling in  *)
(*               the end.                                                  *)
(*                                                                         *)
(* JavaScript numbers are modelled as exact rationals extended with        *)
(* Infinity, -Infinity and NaN (IEEE special values follow the IEEE rules; *)
(* the rounding of finite doubles is not modelled).  Strings are modelled  *)
(* as sequences of characters.  groupedProps and filteredData are memos of *)
(* the state, so they are operators over it; a memo callback that throws   *)
(* fails the render, after which no control can be used.                   *)
(*                                                                         *)
(* One action is one turn of the event loop: the state updates a handler   *)
(* or a continuation makes before it next awaits are applied together      *)
(* (React batches them), and the effects whose dependencies changed re-run *)
(* in the same turn.  Requests settle in any order.                        *)
(***************************************************************************)
EXTENDS Integers, Sequences, FiniteSets, TLC

VARIABLES
  \* ---- component state (useState hooks) ----
  selectedDate, allProps, arbitrage, discrepancies, bestOdds, valueBets,
  consensusBets, loading, isScraping, autoRefresh, error,
  \* ---- the environment of the component ----
  todayReq,     \* the GET /today request of the mount effect
  interval,     \* the setInterval armed by the auto-refresh effect
  inflight,     \* fetchAllData calls awaiting their responses
  scrape,       \* position of the running handleFullRefresh call
  nextId,       \* number of fetchAllData calls started so far, plus one
  latestOk,     \* history: the call started last has finished with success
  lastOp,       \* history: the handler that ran last
  \* ---- stake arithmetic ----
  overOdds, underOdds, totalStake, stakes, shown, stage,
  \* ---- view criteria (useState hooks) and favorites ----
  activeTab, searchQuery, selectedPropType, selectedBook, sortBy,
  showFavorites, favorites,
  storage,      \* the item 'favorites' of localStorage
  screen,       \* what the render of the present state put on the screen
  marked        \* history: the (player, propType) pairs toggled on and not off

varsDash == <<selectedDate, allProps, arbitrage, discrepancies, bestOdds,
              valueBets, consensusBets, loading, isScraping, autoRefresh,
              error, todayReq, interval, inflight, scrape, nextId, latestOk,
              lastOp>>
varsStakes == <<overOdds, underOdds, totalStake, stakes, shown, stage>>
varsView == <<activeTab, searchQuery, selectedPropType, selectedBook, sortBy,
              showFavorites, favorites, storage, screen, marked>>
vars == <<varsDash, varsStakes, varsView>>

-----------------------------------------------------------------------------
(* Bounds of the model *)

\* at most this many fetchAllData calls are started in one behaviour
MaxFetches == 3
\* odds values 100+50i and -(110+20i) for i in 0..MaxOddsSteps
MaxOddsSteps == 3
\* total stakes 25*i for i in 1..MaxStakeSteps (and the default)
MaxStakeSteps == 4
\* allProps holds at most this many quotes
MaxQuotes == 3
\* a snapshot holds at most this many records per collection
MaxRecords == 3

-----------------------------------------------------------------------------
(* JavaScript values and arithmetic *)

Abs(i) == IF i < 0 THEN -i ELSE i
Sign(i) == IF i < 0 THEN -1 ELSE 1

RECURSIVE GCD(_, _)
GCD(a, b) == IF b = 0 THEN a ELSE GCD(b, a % b)

\* a finite number n/d in lowest terms, d > 0
Norm(n, d) ==
  LET g == GCD(Abs(n), d)
  IN  [k |-> "fin", n |-> n \div g, d |-> d \div g]
Num(i) == [k |-> "fin", n |-> i, d |-> 1]
Inf(s) == [k |-> "inf", n |-> s, d |-> 0]
NaN == [k |-> "nan", n |-> 0, d |-> 0]
Null == [k |-> "null", n |-> 0, d |-> 0]
Undefined == [k |-> "undefined", n |-> 0, d |-> 0]

\* ToNumber as applied by >, / and Math.abs to a non-number operand
ToNumber(v) ==
  CASE v.k = "undefined" -> NaN
    [] v.k = "null" -> Num(0)
    [] OTHER -> v

\* x > 0
JGtZero(v) == LET x == ToNumber(v) IN x.k # "nan" /\ x.n > 0

\* Math.abs(x)
JAbs(v) ==
  LET x == ToNumber(v)
  IN  IF x.k = "nan" THEN NaN ELSE [x EXCEPT !.n = Abs(x.n)]

JNeg(x) == IF x.k = "nan" THEN NaN ELSE [x EXCEPT !.n = -x.n]

\* x + y
JAdd(v, w) ==
  LET x == ToNumber(v)
      y == ToNumber(w)
  IN  CASE x.k = "nan" \/ y.k = "nan" -> NaN
        [] x.k = "inf" /\ y.k = "inf" -> IF x.n = y.n THEN x ELSE NaN
        [] x.k = "inf" -> x
        [] y.k = "inf" -> y
        [] OTHER -> Norm(x.n * y.d + y.n * x.d, x.d * y.d)

\* x - y
JSub(v, w) == JAdd(v, JNeg(ToNumber(w)))

\* x * y
JMul(v, w) ==
  LET x == ToNumber(v)
      y == ToNumber(w)
  IN  CASE x.k = "nan" \/ y.k = "nan" -> NaN
        [] x.k = "inf" \/ y.k = "inf" ->
             IF x.n = 0 \/ y.n = 0 THEN NaN ELSE Inf(Sign(x.n) * Sign(y.n))
        [] OTHER -> Norm(x.n * y.n, x.d * y.d)

\* x / y
JDiv(v, w) ==
  LET x == ToNumber(v)
      y == ToNumber(w)
  IN  CASE x.k = "nan" \/ y.k = "nan" -> NaN
        [] x.k = "inf" /\ y.k = "inf" -> NaN
        [] x.k = "inf" -> Inf(x.n * Sign(y.n))
        [] y.k = "inf" -> Num(0)
        [] y.n = 0 -> IF x.n = 0 THEN NaN ELSE Inf(Sign(x.n))
        [] OTHER -> Norm(x.n * y.d * Sign(y.n), x.d * Abs(y.n))

\* variant of ToFixed2 that cuts the digits off instead of rounding
ToFixed2_Truncate(x) ==
  CASE x.k = "nan" -> [k |-> "NaN", cents |-> 0]
    [] x.k = "inf" -> [k |-> "Infinity", cents |-> x.n]
    [] OTHER -> [k |-> "fixed", cents |-> Sign(x.n) * ((Abs(x.n) * 100) \div x.d)]

\* Number.prototype.toFixed(2): the nearest multiple of 0.01 (the larger one on
\* a tie), kept as a number of hundredths; "NaN" and "Infinity" print as such
ToFixed2(x) ==
  CASE x.k = "nan" -> [k |-> "NaN", cents |-> 0]
    [] x.k = "inf" -> [k |-> "Infinity", cents |-> x.n]
    [] OTHER ->
         LET a == Abs(x.n) * 100
             q == a \div x.d
             r == a % x.d
             c == IF 2 * r >= x.d THEN q + 1 ELSE q
         IN  [k |-> "fixed", cents |-> Sign(x.n) * c]

-----------------------------------------------------------------------------
(* JavaScript strings and truthiness *)

\* a string value: its characters, one per element
Str(chars) == [k |-> "str", s |-> chars]

UpperCase == <<"A", "B", "C", "D", "E", "F", "G", "H", "I", "J", "K", "L", "M",
               "N", "O", "P", "Q", "R", "S", "T", "U", "V", "W", "X", "Y", "Z">>
LowerCase == <<"a", "b", "c", "d", "e", "f", "g", "h", "i", "j", "k", "l", "m",
               "n", "o", "p", "q", "r", "s", "t", "u", "v", "w", "x", "y", "z">>

\* the lower case letter of each upper case letter
LowerOf ==
  [c \in {UpperCase[i] : i \in DOMAIN UpperCase} |->
     LowerCase[CHOOSE i \in DOMAIN UpperCase : UpperCase[i] = c]]

\* toLowerCase on one character
toLowerChar(c) == IF c \in DOMAIN LowerOf THEN LowerOf[c] ELSE c

\* s.toLowerCase() of a string s
toLowerCase(v) == Str([i \in 1..Len(v.s) |-> toLowerChar(v.s[i])])

\* s.includes(t): t occurs in s as a run of consecutive characters
includes(v, w) ==
  \E i \in 0..(Len(v.s) - Len(w.s)) :
    \A j \in 1..Len(w.s) : v.s[i + j] = w.s[j]

\* the characters ${v} contributes to a template literal (v a string, or a
\* missing value; players and prop types are never finite numbers here)
TemplateChars(v) ==
  CASE v.k = "str" -> v.s
    [] v.k = "undefined" -> <<"u", "n", "d", "e", "f", "i", "n", "e", "d">>
    [] v.k = "null" -> <<"n", "u", "l", "l">>
    [] v.k = "nan" -> <<"N", "a", "N">>

\* whether a value counts as true in if, !, && and ||
Truthy(v) ==
  CASE v.k \in {"undefined", "null", "nan"} -> FALSE
    [] v.k = "str" -> v.s # <<>>
    [] v.k = "fin" -> v.n # 0
    [] OTHER -> TRUE

\* a || b
JOr(a, b) == IF Truthy(a) THEN a ELSE b

\* a === b on numbers, strings, null and undefined
StrictEq(a, b) == a.k # "nan" /\ a.k = b.k /\ a = b

-----------------------------------------------------------------------------
(* calculateStakes *)

TotalStakeDefault == 100

\* overOdds > 0 ? (overOdds / 100) + 1 : (100 / Math.abs(overOdds)) + 1
decimalMultiplier(odds) ==
  IF JGtZero(odds)
    THEN JAdd(JDiv(odds, Num(100)), Num(1))
    ELSE JAdd(JDiv(Num(100), JAbs(odds)), Num(1))

ZeroStakes == [stakeOver |-> Num(0), stakeUnder |-> Num(0), profit |-> Num(0)]

\* variant of calculateStakes with the ratio of the multipliers inverted
calculateStakes_InvertedRatio(over, under, total) ==
  IF over = Null \/ under = Null
    THEN ZeroStakes
    ELSE LET decOver == decimalMultiplier(over)
             decUnder == decimalMultiplier(under)
             stakeOver == JDiv(total, JAdd(Num(1), JDiv(decUnder, decOver)))
             stakeUnder == JSub(total, stakeOver)
             profit == JSub(JMul(stakeOver, decOver), total)
         IN  [stakeOver |-> stakeOver, stakeUnder |-> stakeUnder,
              profit |-> profit]

\* variant of calculateStakes whose under stake repeats the over stake's formula
calculateStakes_UnderCopied(over, under, total) ==
  IF over = Null \/ under = Null
    THEN ZeroStakes
    ELSE LET decOver == decimalMultiplier(over)
             decUnder == decimalMultiplier(under)
             stakeOver == JDiv(total, JAdd(Num(1), JDiv(decOver, decUnder)))
             stakeUnder == JDiv(total, JAdd(Num(1), JDiv(decOver, decUnder)))
             profit == JSub(JMul(stakeOver, decOver), total)
         IN  [stakeOver |-> stakeOver, stakeUnder |-> stakeUnder,
              profit |-> profit]

\* variant of calculateStakes that never reports a loss: Math.max(0, profit)
calculateStakes_ClampedProfit(over, under, total) ==
  IF over = Null \/ under = Null
    THEN ZeroStakes
    ELSE LET decOver == decimalMultiplier(over)
             decUnder == decimalMultiplier(under)
             stakeOver == JDiv(total, JAdd(Num(1), JDiv(decOver, decUnder)))
             stakeUnder == JSub(total, stakeOver)
             profit == JSub(JMul(stakeOver, decOver), total)
         IN  [stakeOver |-> stakeOver, stakeUnder |-> stakeUnder,
              profit |-> IF profit.k = "fin" /\ profit.n < 0 THEN Num(0)
                                                             ELSE profit]

calculateStakes(over, under, total) ==
  IF over = Null \/ under = Null
    THEN ZeroStakes
    ELSE LET decOver == decimalMultiplier(over)
             decUnder == decimalMultiplier(under)
             stakeOver == JDiv(total, JAdd(Num(1), JDiv(decOver, decUnder)))
             stakeUnder == JSub(total, stakeOver)
             profit == JSub(JMul(stakeOver, decOver), total)
         IN  [stakeOver |-> stakeOver, stakeUnder |-> stakeUnder,
              profit |-> profit]

-----------------------------------------------------------------------------
(* The component: dates, requests and responses *)

NoDate == ""
Dates == {"d1", "d2"}

Endpoints == {"props", "arbitrage", "discrepancies", "best-odds",
              "value-bets", "consensus-bets"}

\* how one request of a batch ends: a response with res.ok, a response with
\* !res.ok, a rejected fetch, or a body that res.json() cannot parse
ResponseKinds == {"ok", "notok", "reject", "badjson"}
Responses == [Endpoints -> ResponseKinds]

NoError == "null"
ErrEndpoints == "Failed to fetch prop data. (One or more API endpoints failed)"
ErrNetwork == "Failed to fetch prop data. (fetch rejected)"
ErrJson == "Failed to fetch prop data. (invalid json)"
ErrScraperDefault == "Failed to start scraper process."
ErrScraperServer == "scraper error reported by the server"
ErrScraperNetwork == "trigger-scrape fetch rejected"

\* the array an endpoint returns for a date; the batch that fetched it is
\* recorded so that snapshots of different batches can be told apart
Payload(e, f) == <<[endpoint |-> e, date |-> f.date, batch |-> f.id]>>
Empty == <<>>

NoInterval == "none"
Idle == [phase |-> "idle", date |-> NoDate, fetch |-> 0]

\* if (loading && !selectedDate) return <the "Connecting to API..." screen>
ControlsRendered == ~(loading /\ selectedDate = NoDate)

\* variant of IntervalEffect without the isScraping condition
IntervalEffect_NoScrapeGuard(auto, date, scraping) ==
  IF auto /\ date # NoDate THEN date ELSE NoInterval

\* the auto-refresh effect, re-run whenever one of its dependencies changes:
\* the previous interval is cleared and a new one armed if the condition
\* holds; the armed callback is the fetchAllData closure of that render
IntervalEffect(auto, date, scraping) ==
  IF auto /\ date # NoDate /\ ~scraping THEN date ELSE NoInterval

\* a fetchAllData call for the date its closure captured
NewFetch(date, via) ==
  [id |-> nextId, date |-> date, via |-> via]

\* the first failure the try block of fetchAllData runs into
FetchFailure(r) ==
  CASE \E e \in Endpoints : r[e] = "reject" -> ErrNetwork
    [] \E e \in Endpoints : r[e] = "notok" -> ErrEndpoints
    [] \E e \in Endpoints : r[e] = "badjson" -> ErrJson
    [] OTHER -> NoError

\* variant of FetchSettle whose catch block resets four collections only
FetchSettle_FourCollections(f, why) ==
  IF why = NoError
    THEN [allProps |-> Payload("props", f),
          arbitrage |-> Payload("arbitrage", f),
          discrepancies |-> Payload("discrepancies", f),
          bestOdds |-> Payload("best-odds", f),
          valueBets |-> Payload("value-bets", f),
          consensusBets |-> Payload("consensus-bets", f),
          error |-> error]
    ELSE [allProps |-> Empty, arbitrage |-> Empty, discrepancies |-> Empty,
          bestOdds |-> Empty, valueBets |-> valueBets,
          consensusBets |-> consensusBets, error |-> why]

\* every way the try block can end, over all responses of the six requests
FetchOutcomes == {FetchFailure(r) : r \in Responses}

\* what fetchAllData assigns once its try block has ended with outcome why
FetchSettle(f, why) ==
  IF why = NoError
    THEN [allProps |-> Payload("props", f),
          arbitrage |-> Payload("arbitrage", f),
          discrepancies |-> Payload("discrepancies", f),
          bestOdds |-> Payload("best-odds", f),
          valueBets |-> Payload("value-bets", f),
          consensusBets |-> Payload("consensus-bets", f),
          error |-> error]
    ELSE [allProps |-> Empty, arbitrage |-> Empty, discrepancies |-> Empty,
          bestOdds |-> Empty, valueBets |-> Empty, consensusBets |-> Empty,
          error |-> why]

-----------------------------------------------------------------------------
(* The component: handlers *)

InitDash ==
  /\ selectedDate = NoDate
  /\ allProps = Empty /\ arbitrage = Empty /\ discrepancies = Empty
  /\ bestOdds = Empty /\ valueBets = Empty /\ consensusBets = Empty
  /\ loading = TRUE /\ isScraping = FALSE /\ autoRefresh = FALSE
  /\ error = NoError
  /\ todayReq = "pending"
  /\ interval = NoInterval
  /\ inflight = {}
  /\ scrape = Idle
  /\ nextId = 1
  /\ latestOk = FALSE
  /\ lastOp = "mount"

UnchangedCollections ==
  UNCHANGED <<allProps, arbitrage, discrepancies, bestOdds, valueBets,
              consensusBets>>

\* variant of TodayResolve whose catch handler sets the error only
TodayResolve_NoFallback(ok, d) ==
  /\ todayReq = "pending"
  /\ nextId <= MaxFetches
  /\ todayReq' = "settled"
  /\ IF ok
       THEN /\ selectedDate' = d
            /\ loading' = TRUE
            /\ error' = NoError
            /\ inflight' = inflight \cup {NewFetch(d, "date")}
            /\ nextId' = nextId + 1
            /\ interval' = IntervalEffect(autoRefresh, d, isScraping)
            /\ lastOp' = "today"
       ELSE /\ error' = "Could not connect to API. Is it running?"
            /\ lastOp' = "todayFallback"
            /\ UNCHANGED <<selectedDate, loading, inflight, nextId, interval>>
  /\ UnchangedCollections
  /\ latestOk' = FALSE
  /\ UNCHANGED <<isScraping, autoRefresh, scrape>>
  /\ UNCHANGED <<varsStakes, varsView>>

\* the mount effect's GET /today settles: with a date, or without one (not ok,
\* no date in the body, rejected), in which case the browser's date is used.
\* setSelectedDate re-runs the date effect, which calls fetchAllData; that
\* call's setError(null) replaces the 'Could not connect to API' error that the
\* catch handler set in the same turn.
TodayResolve(ok, d) ==
  /\ todayReq = "pending"
  /\ nextId <= MaxFetches
  /\ todayReq' = "settled"
  /\ selectedDate' = d
  /\ loading' = TRUE
  /\ error' = NoError
  /\ inflight' = inflight \cup {NewFetch(d, "date")}
  /\ nextId' = nextId + 1
  /\ interval' = IntervalEffect(autoRefresh, d, isScraping)
  /\ lastOp' = IF ok THEN "today" ELSE "todayFallback"
  /\ UnchangedCollections
  /\ latestOk' = FALSE
  /\ UNCHANGED <<isScraping, autoRefresh, scrape>>
  /\ UNCHANGED <<varsStakes, varsView>>

\* onChange of the date input: setSelectedDate(e.target.value); the date effect
\* calls fetchAllData unless the new value is empty
ChangeDate(d) ==
  /\ ControlsRendered
  /\ d # selectedDate
  /\ selectedDate' = d
  /\ interval' = IntervalEffect(autoRefresh, d, isScraping)
  /\ IF d = NoDate
       THEN /\ UNCHANGED <<loading, error, inflight, nextId, latestOk>>
            /\ lastOp' = "clearDate"
       ELSE /\ nextId <= MaxFetches
            /\ loading' = TRUE
            /\ error' = NoError
            /\ inflight' = inflight \cup {NewFetch(d, "date")}
            /\ nextId' = nextId + 1
            /\ latestOk' = FALSE
            /\ lastOp' = "changeDate"
  /\ UnchangedCollections
  /\ UNCHANGED <<isScraping, autoRefresh, todayReq, scrape>>
  /\ UNCHANGED <<varsStakes, varsView>>

\* onClick of the Auto button: setAutoRefresh(!autoRefresh)
ToggleAutoRefresh ==
  /\ ControlsRendered
  /\ autoRefresh' = ~autoRefresh
  /\ interval' = IntervalEffect(~autoRefresh, selectedDate, isScraping)
  /\ lastOp' = "toggleAuto"
  /\ UnchangedCollections
  /\ UNCHANGED <<selectedDate, loading, isScraping, error, todayReq, inflight,
                 scrape, nextId, latestOk>>
  /\ UNCHANGED <<varsStakes, varsView>>

\* the interval fires: fetchAllData of the closure the effect captured
TimerTick ==
  /\ interval # NoInterval
  /\ nextId <= MaxFetches
  /\ loading' = TRUE
  /\ error' = NoError
  /\ inflight' = inflight \cup {NewFetch(interval, "timer")}
  /\ nextId' = nextId + 1
  /\ lastOp' = "timerTick"
  /\ UnchangedCollections
  /\ latestOk' = FALSE
  /\ UNCHANGED <<selectedDate, isScraping, autoRefresh, todayReq, interval,
                 scrape>>
  /\ UNCHANGED <<varsStakes, varsView>>

\* variant of HandleFullRefresh that returns when loading only, behind a
\* button that is disabled when loading only
HandleFullRefresh_LoadingOnly ==
  /\ ControlsRendered
  /\ ~loading
  /\ isScraping' = TRUE
  /\ error' = NoError
  /\ autoRefresh' = FALSE
  /\ scrape' = [phase |-> "trigger", date |-> selectedDate, fetch |-> 0]
  /\ interval' = IntervalEffect(FALSE, selectedDate, TRUE)
  /\ lastOp' = "fullRefresh"
  /\ UnchangedCollections
  /\ UNCHANGED <<selectedDate, loading, todayReq, inflight, nextId, latestOk>>
  /\ UNCHANGED <<varsStakes, varsView>>

\* handleFullRefresh up to its first await (the POST trigger-scrape); the
\* button is disabled, and the handler returns, when loading or isScraping
HandleFullRefresh ==
  /\ ControlsRendered
  /\ ~(loading \/ isScraping)
  /\ isScraping' = TRUE
  /\ error' = NoError
  /\ autoRefresh' = FALSE
  /\ scrape' = [phase |-> "trigger", date |-> selectedDate, fetch |-> 0]
  /\ interval' = IntervalEffect(FALSE, selectedDate, TRUE)
  /\ lastOp' = "fullRefresh"
  /\ UnchangedCollections
  /\ UNCHANGED <<selectedDate, loading, todayReq, inflight, nextId, latestOk>>
  /\ UNCHANGED <<varsStakes, varsView>>

\* the message handleFullRefresh's catch block receives for a failed trigger
TriggerFailure(out) ==
  CASE out = "notokMessage" -> ErrScraperServer
    [] out = "notokNoMessage" -> ErrScraperDefault
    [] OTHER -> ErrScraperNetwork

TriggerOutcomes == {"ok", "notokMessage", "notokNoMessage", "reject"}

\* the POST trigger-scrape settles with success: await fetchAllData()
TriggerSucceeded ==
  /\ scrape.phase = "trigger"
  /\ nextId <= MaxFetches
  /\ loading' = TRUE
  /\ error' = NoError
  /\ inflight' = inflight \cup {NewFetch(scrape.date, "refresh")}
  /\ nextId' = nextId + 1
  /\ scrape' = [scrape EXCEPT !.phase = "fetch", !.fetch = nextId]
  /\ lastOp' = "triggerOk"
  /\ UnchangedCollections
  /\ latestOk' = FALSE
  /\ UNCHANGED <<selectedDate, isScraping, autoRefresh, todayReq, interval>>
  /\ UNCHANGED <<varsStakes, varsView>>

\* variant of TriggerFailed that also empties the collections, as the catch
\* block of fetchAllData does
TriggerFailed_ClearsData(out) ==
  /\ scrape.phase = "trigger"
  /\ out # "ok"
  /\ error' = TriggerFailure(out)
  /\ isScraping' = FALSE
  /\ scrape' = Idle
  /\ interval' = IntervalEffect(autoRefresh, selectedDate, FALSE)
  /\ lastOp' = "triggerFailed"
  /\ allProps' = Empty /\ arbitrage' = Empty /\ discrepancies' = Empty
  /\ bestOdds' = Empty /\ valueBets' = Empty /\ consensusBets' = Empty
  /\ UNCHANGED <<selectedDate, loading, autoRefresh, todayReq, inflight,
                 nextId, latestOk>>
  /\ UNCHANGED <<varsStakes, varsView>>

\* the POST trigger-scrape fails: catch sets the error, finally ends the scrape
TriggerFailed(out) ==
  /\ scrape.phase = "trigger"
  /\ out # "ok"
  /\ error' = TriggerFailure(out)
  /\ isScraping' = FALSE
  /\ scrape' = Idle
  /\ interval' = IntervalEffect(autoRefresh, selectedDate, FALSE)
  /\ lastOp' = "triggerFailed"
  /\ UnchangedCollections
  /\ UNCHANGED <<selectedDate, loading, autoRefresh, todayReq, inflight,
                 nextId, latestOk>>
  /\ UNCHANGED <<varsStakes, varsView>>

\* the requests of fetchAllData call f settle and its try block ends with
\* outcome why; when f is the call handleFullRefresh awaits, the finally block
\* of handleFullRefresh runs in the same turn
CompleteFetch(f, why) ==
  LET s == FetchSettle(f, why)
      awaited == scrape.phase = "fetch" /\ scrape.fetch = f.id
  IN  /\ f \in inflight
      /\ allProps' = s.allProps
      /\ arbitrage' = s.arbitrage
      /\ discrepancies' = s.discrepancies
      /\ bestOdds' = s.bestOdds
      /\ valueBets' = s.valueBets
      /\ consensusBets' = s.consensusBets
      /\ error' = s.error
      /\ loading' = FALSE
      /\ inflight' = inflight \ {f}
      /\ latestOk' = IF f.id = nextId - 1 THEN why = NoError
                                          ELSE latestOk
      /\ isScraping' = IF awaited THEN FALSE ELSE isScraping
      /\ scrape' = IF awaited THEN Idle ELSE scrape
      /\ interval' = IntervalEffect(autoRefresh, selectedDate, isScraping')
      /\ lastOp' = IF why = NoError THEN "fetchOk" ELSE "fetchFailed"
      /\ UNCHANGED <<selectedDate, autoRefresh, todayReq, nextId>>
      /\ UNCHANGED <<varsStakes, varsView>>

InitStakesIdle ==
  /\ overOdds = Null /\ underOdds = Null /\ totalStake = Num(0)
  /\ stakes = ZeroStakes /\ shown = <<>> /\ stage = "idle"

\* the render of the present state has not happened yet
Pending == [status |-> "pending"]

\* the text of the "all" option of the prop-type and sportsbook selects
AllOption == Str(<<"a", "l", "l">>)

\* the useState defaults of the view criteria; localStorage holds no favorites
InitViewIdle ==
  /\ activeTab = "arbitrage"
  /\ searchQuery = Str(<<>>)
  /\ selectedPropType = AllOption
  /\ selectedBook = AllOption
  /\ sortBy = "profit"
  /\ showFavorites = FALSE
  /\ favorites = <<>>
  /\ storage = Null
  /\ screen = Pending
  /\ marked = {}

Init == InitDash /\ InitStakesIdle /\ InitViewIdle

Next ==
  \/ \E ok \in BOOLEAN, d \in Dates : TodayResolve(ok, d)
  \/ \E d \in Dates \cup {NoDate} : ChangeDate(d)
  \/ ToggleAutoRefresh
  \/ TimerTick
  \/ HandleFullRefresh
  \/ TriggerSucceeded
  \/ \E out \in TriggerOutcomes : TriggerFailed(out)
  \/ \E f \in inflight, why \in FetchOutcomes : CompleteFetch(f, why)

Spec == Init /\ [][Next]_vars

\* Every fetch() promise is resolved or rejected in the end, and the event
\* loop then runs the code that awaits it; the user and the timer are under no
\* obligation.  Of the requests that settle, each specification below names
\* the ones its properties wait for.

\* the request for the date, and the batch the date effect fetches when it has
\* settled (the first fetchAllData call)
MountSettles ==
  /\ WF_vars(\E ok \in BOOLEAN, d \in Dates : TodayResolve(ok, d))
  /\ WF_vars(\E f \in inflight, why \in FetchOutcomes :
               f.id = 1 /\ CompleteFetch(f, why))

SpecMount == Spec /\ MountSettles

\* the POST trigger-scrape of a full refresh, and the batch handleFullRefresh
\* awaits after it
RefreshSettles ==
  /\ WF_vars(TriggerSucceeded \/ \E out \in TriggerOutcomes : TriggerFailed(out))
  /\ WF_vars(\E f \in inflight, why \in FetchOutcomes :
               /\ scrape.phase = "fetch"
               /\ f.id = scrape.fetch
               /\ CompleteFetch(f, why))

SpecRefresh == Spec /\ RefreshSettles

-----------------------------------------------------------------------------
(* Stake arithmetic: inputs and the two places that run it *)

OddsValues ==
  {Num(100 + 50 * i) : i \in 0..MaxOddsSteps}
    \cup {Num(-(110 + 20 * i)) : i \in 0..MaxOddsSteps}
    \cup {Num(0), Null, Undefined}
StakeValues ==
  {Num(25 * i) : i \in 1..MaxStakeSteps} \cup {Num(TotalStakeDefault)}

InitStakes ==
  /\ InitDash
  /\ InitViewIdle
  /\ overOdds \in OddsValues
  /\ underOdds \in OddsValues
  /\ totalStake \in StakeValues
  /\ stakes = ZeroStakes
  /\ shown = <<>>
  /\ stage = "input"

\* calculateStakes(overOdds, underOdds, totalStake)
CalculateStakes ==
  /\ stage = "input"
  /\ stakes' = calculateStakes(overOdds, underOdds, totalStake)
  /\ stage' = "computed"
  /\ UNCHANGED <<overOdds, underOdds, totalStake, shown>>
  /\ UNCHANGED <<varsDash, varsView>>

\* one card of the arbitrage view: calculateStakes(arb.over_odds,
\* arb.under_odds) with the default total stake, printed with toFixed(2)
ArbitrageCard ==
  /\ stage = "input"
  /\ totalStake = Num(TotalStakeDefault)
  /\ LET st == calculateStakes(overOdds, underOdds, Num(TotalStakeDefault))
     IN  /\ stakes' = st
         /\ shown' = [stakeOver |-> ToFixed2(st.stakeOver),
                      stakeUnder |-> ToFixed2(st.stakeUnder),
                      profit |-> ToFixed2(st.profit)]
  /\ stage' = "shown"
  /\ UNCHANGED <<overOdds, underOdds, totalStake>>
  /\ UNCHANGED <<varsDash, varsView>>

NextStakes ==
  \/ CalculateStakes
  \/ ArbitrageCard

SpecStakes == InitStakes /\ [][NextStakes]_vars

-----------------------------------------------------------------------------
(* groupedProps: the quotes of allProps merged by player and prop type *)

\* a property read item.f: undefined when the record has no such property
Get(item, f) == IF f \in DOMAIN item THEN item[f] ELSE Undefined

\* the template literal `${player}-${propType}`
Key(player, propType) ==
  Str(TemplateChars(player) \o <<"-">> \o TemplateChars(propType))

\* the position of the property key of the object grouped, 0 when it has none;
\* grouped is kept as its list of properties in creation order
Lookup(grouped, key) ==
  IF \E i \in DOMAIN grouped : grouped[i].key = key
    THEN CHOOSE i \in DOMAIN grouped : grouped[i].key = key
    ELSE 0

NoBooks == [b \in {} |-> Undefined]

\* books[name] = entry
Put(books, name, entry) ==
  [b \in DOMAIN books \cup {name} |-> IF b = name THEN entry ELSE books[b]]

\* the group created for the first quote of a key
NewGroup(prop) ==
  [player |-> prop.player, propType |-> prop.prop_type, game |-> prop.game,
   team |-> prop.team, books |-> NoBooks]

\* variant of AddGroup that puts the new group in front of the others
AddGroup_Front(grouped, key, prop) ==
  <<[key |-> key, value |-> NewGroup(prop)]>> \o grouped

\* grouped[key] = {...}: a property that is new comes last in Object.values (no
\* key is an array index, every key holds the character "-")
AddGroup(grouped, key, prop) ==
  Append(grouped, [key |-> key, value |-> NewGroup(prop)])

\* variant of BookKey that keeps the name as it is written
BookKey_CaseSensitive(sportsbook) == sportsbook.s

\* the name a quote's entry is stored under: prop.sportsbook.toLowerCase()
BookKey(sportsbook) == toLowerCase(sportsbook).s

\* prop.sportsbook.toLowerCase() throws a TypeError unless prop.sportsbook is
\* a string: the memo callback, and with it the render, fails at such a quote
GroupingThrows ==
  \E i \in DOMAIN allProps : allProps[i].sportsbook.k # "str"

\* the body of the forEach callback for one quote that has a sportsbook name
GroupStep(before, prop) ==
  LET key == Key(prop.player, prop.prop_type)
      grouped == IF Lookup(before, key) = 0
                   THEN AddGroup(before, key, prop)
                   ELSE before
      pos == Lookup(grouped, key)
      entry == [line |-> prop.line, overOdds |-> prop.over_odds,
                underOdds |-> prop.under_odds]
  IN  [grouped EXCEPT ![pos].value.books =
                         Put(@, BookKey(prop.sportsbook), entry)]

RECURSIVE GroupFold(_, _)
\* allProps.forEach over the first n quotes
GroupFold(props, n) ==
  IF n = 0 THEN <<>> ELSE GroupStep(GroupFold(props, n - 1), props[n])

\* the memoized groupedProps, Object.values(grouped), of a render that does
\* not fail
groupedProps ==
  LET grouped == GroupFold(allProps, Len(allProps))
  IN  [i \in 1..Len(grouped) |-> grouped[i].value]

-----------------------------------------------------------------------------
(* filteredData: the records of the active tab, filtered and sorted *)

Tabs == {"arbitrage", "value", "consensus", "discrepancies", "best-odds", "all"}
\* the tabs the sportsbook filter applies to
BookTabs == {"value", "consensus", "best-odds"}
\* the tabs that sort their records
SortedTabs == Tabs \ {"all"}

\* the switch on activeTab
BaseData ==
  CASE activeTab = "all" -> groupedProps
    [] activeTab = "arbitrage" -> arbitrage
    [] activeTab = "value" -> valueBets
    [] activeTab = "consensus" -> consensusBets
    [] activeTab = "discrepancies" -> discrepancies
    [] activeTab = "best-odds" -> bestOdds
    [] OTHER -> <<>>

\* variant of SearchFilter that compares the characters as they are written
SearchFilter_CaseSensitive(data) ==
  IF Truthy(searchQuery)
    THEN SelectSeq(data, LAMBDA item : includes(item.player, searchQuery))
    ELSE data

\* the search filter
SearchFilter(data) ==
  IF Truthy(searchQuery)
    THEN SelectSeq(data, LAMBDA item :
           includes(toLowerCase(item.player), toLowerCase(searchQuery)))
    ELSE data

\* item.propType || item.prop_type
PropTypeOf(item) == JOr(Get(item, "propType"), Get(item, "prop_type"))

\* the prop type filter
PropTypeFilter(data) ==
  IF ~StrictEq(selectedPropType, AllOption)
    THEN SelectSeq(data, LAMBDA item :
           StrictEq(PropTypeOf(item), selectedPropType))
    ELSE data

\* favorites.includes(`${player}-${propType}`)
isFavorite(player, propType) ==
  \E i \in DOMAIN favorites : StrictEq(favorites[i], Key(player, propType))

\* the favorites filter
FavoritesFilter(data) ==
  IF showFavorites
    THEN SelectSeq(data, LAMBDA item :
           isFavorite(item.player, PropTypeOf(item)))
    ELSE data

\* the sportsbook filter
BookFilter(data) ==
  IF ~StrictEq(selectedBook, AllOption) /\ activeTab \in BookTabs
    THEN SelectSeq(data, LAMBDA item :
           StrictEq(Get(item, "best_book"), selectedBook))
    ELSE data

\* the place of a character in the collation order: punctuation comes before
\* the letters, the letters are in alphabetical order whatever their case
RankOf ==
  [c \in {LowerCase[i] : i \in DOMAIN LowerCase} |->
     CHOOSE i \in DOMAIN LowerCase : LowerCase[i] = c]

CharRank(c) ==
  IF toLowerChar(c) \in DOMAIN RankOf THEN RankOf[toLowerChar(c)] ELSE 0

\* x.localeCompare(y) for strings of letters and punctuation: first by the
\* letters whatever their case, then lower case before upper case
localeCompare(x, y) ==
  LET n == IF Len(x.s) < Len(y.s) THEN Len(x.s) ELSE Len(y.s)
      ranked == {i \in 1..n : CharRank(x.s[i]) # CharRank(y.s[i])}
      cased == {i \in 1..n : x.s[i] # y.s[i]}
      p == CHOOSE i \in ranked : \A j \in ranked : i <= j
      t == CHOOSE i \in cased : \A j \in cased : i <= j
  IN  CASE ranked # {} ->
             IF CharRank(x.s[p]) < CharRank(y.s[p]) THEN Num(-1) ELSE Num(1)
        [] ranked = {} /\ Len(x.s) # Len(y.s) ->
             IF Len(x.s) < Len(y.s) THEN Num(-1) ELSE Num(1)
        [] ranked = {} /\ Len(x.s) = Len(y.s) /\ cased # {} ->
             IF toLowerChar(x.s[t]) = x.s[t] THEN Num(-1) ELSE Num(1)
        [] OTHER -> Num(0)

\* variant of compare that ranks by value in ascending order
compare_Ascending(a, b) ==
  IF sortBy = "profit"
    THEN CASE activeTab = "arbitrage" ->
                JSub(Get(a, "profit_percent"), Get(b, "profit_percent"))
           [] activeTab = "value" ->
                JSub(JOr(Get(a, "edge_percent"), Num(0)),
                     JOr(Get(b, "edge_percent"), Num(0)))
           [] activeTab \in {"consensus", "best-odds"} ->
                JSub(Get(a, "odds_difference"), Get(b, "odds_difference"))
           [] activeTab = "discrepancies" ->
                JSub(Get(a, "line_difference"), Get(b, "line_difference"))
    ELSE localeCompare(a.player, b.player)

\* the comparator of the active tab
compare(a, b) ==
  IF sortBy = "profit"
    THEN CASE activeTab = "arbitrage" ->
                JSub(Get(b, "profit_percent"), Get(a, "profit_percent"))
           [] activeTab = "value" ->
                JSub(JOr(Get(b, "edge_percent"), Num(0)),
                     JOr(Get(a, "edge_percent"), Num(0)))
           [] activeTab \in {"consensus", "best-odds"} ->
                JSub(Get(b, "odds_difference"), Get(a, "odds_difference"))
           [] activeTab = "discrepancies" ->
                JSub(Get(b, "line_difference"), Get(a, "line_difference"))
    ELSE localeCompare(a.player, b.player)

RECURSIVE InsertionPoint(_, _, _)
\* how many of the first j elements of sorted stay in front of x: an element
\* moves behind x only when the comparator puts it after x (a NaN from the
\* comparator counts as 0)
InsertionPoint(sorted, x, j) ==
  IF j = 0
    THEN 0
    ELSE IF JGtZero(compare(sorted[j], x))
           THEN InsertionPoint(sorted, x, j - 1)
           ELSE j

RECURSIVE SortPrefix(_, _)
\* the first n elements of data, sorted
SortPrefix(data, n) ==
  IF n = 0
    THEN <<>>
    ELSE LET sorted == SortPrefix(data, n - 1)
             p == InsertionPoint(sorted, data[n], n - 1)
         IN  SubSeq(sorted, 1, p) \o <<data[n]>> \o SubSeq(sorted, p + 1, n - 1)

\* variant of sort that returns the sorted records last to first
sort_Reversed(data) ==
  [i \in DOMAIN data |-> SortPrefix(data, Len(data))[Len(data) + 1 - i]]

\* [...data].sort(compare): Array.prototype.sort is stable.  Where the
\* comparator orders the records consistently this is the one result a stable
\* sort can give; where it does not (a NaN against some records and a number
\* against others) the language leaves the order to the engine, and this is
\* the order of the insertion sort engines run on short arrays.
sort(data) == SortPrefix(data, Len(data))

\* the stages of the memo
Searched == SearchFilter(BaseData)
Typed == PropTypeFilter(Searched)
Favored == FavoritesFilter(Typed)
Booked == BookFilter(Favored)

\* the render fails when a memo callback throws: in groupedProps, or at a call
\* item.player.toLowerCase() or a.player.localeCompare(...) on a record whose
\* player is not a string
PipelineThrows ==
  \/ GroupingThrows
  \/ /\ Truthy(searchQuery)
     /\ \E i \in DOMAIN BaseData : BaseData[i].player.k # "str"
  \/ /\ activeTab \in SortedTabs /\ sortBy # "profit"
     /\ Len(Booked) > 1
     /\ \E i \in DOMAIN Booked : Booked[i].player.k # "str"

\* the memoized filteredData of a render that does not fail
filteredData == IF activeTab \in SortedTabs THEN sort(Booked) ELSE Booked

\* variant of StoredAfter for data.sort(compare): where no filter has made a
\* new array, data is the stored array itself and the sort reorders it
StoredAfter_InPlace(tab, stored) ==
  LET filtered == \/ Truthy(searchQuery)
                  \/ ~StrictEq(selectedPropType, AllOption)
                  \/ showFavorites
                  \/ ~StrictEq(selectedBook, AllOption) /\ activeTab \in BookTabs
  IN  IF tab = activeTab /\ tab \in SortedTabs /\ ~filtered /\ ~PipelineThrows
        THEN sort(stored)
        ELSE stored

\* the array a collection of the state holds once the memo has run: filter
\* returns a new array and the sort step sorts a copy, [...data], so the
\* stored array is as it was
StoredAfter(tab, stored) == stored

-----------------------------------------------------------------------------
(* The cards and the footer *)

DraftKings == Str(<<"D", "r", "a", "f", "t", "K", "i", "n", "g", "s">>)
FanDuel == Str(<<"F", "a", "n", "D", "u", "e", "l">>)
\* the property names books.draftkings and books.fanduel
draftkings == <<"d", "r", "a", "f", "t", "k", "i", "n", "g", "s">>
fanduel == <<"f", "a", "n", "d", "u", "e", "l">>

\* variant of AllPropsCard whose flag compares the two lines only
AllPropsCard_LinesOnly(prop) ==
  LET hasDK == draftkings \in DOMAIN prop.books
      hasFD == fanduel \in DOMAIN prop.books
      dkLine == IF hasDK THEN prop.books[draftkings].line ELSE Undefined
      fdLine == IF hasFD THEN prop.books[fanduel].line ELSE Undefined
  IN  [player |-> prop.player, propType |-> prop.propType,
       lineMismatch |-> ~StrictEq(dkLine, fdLine),
       rendered |-> ~ \/ StrictEq(selectedBook, DraftKings) /\ ~hasDK
                      \/ StrictEq(selectedBook, FanDuel) /\ ~hasFD]

\* one row of the all-props view: its LINE MISMATCH flag, and whether the row
\* is rendered at all (the callback returns null for a group that lacks the
\* selected sportsbook)
AllPropsCard(prop) ==
  LET hasDK == draftkings \in DOMAIN prop.books
      hasFD == fanduel \in DOMAIN prop.books
      hasBothBooks == hasDK /\ hasFD
      dkLine == IF hasDK THEN prop.books[draftkings].line ELSE Undefined
      fdLine == IF hasFD THEN prop.books[fanduel].line ELSE Undefined
  IN  [player |-> prop.player, propType |-> prop.propType,
       lineMismatch |-> hasBothBooks /\ ~StrictEq(dkLine, fdLine),
       rendered |-> ~ \/ StrictEq(selectedBook, DraftKings) /\ ~hasDK
                      \/ StrictEq(selectedBook, FanDuel) /\ ~hasFD]

\* the cards on the screen: one per record of filteredData, less the rows of
\* the all-props view that are not rendered
Cards ==
  IF activeTab = "all"
    THEN SelectSeq([i \in DOMAIN filteredData |->
                      AllPropsCard(filteredData[i])],
                   LAMBDA card : card.rendered)
    ELSE filteredData

\* the footer's Displayed Results
DisplayedResults == Len(filteredData)

\* a render in which a memo callback threw: the component is taken down
Crashed == [status |-> "crashed"]

\* what a render puts on the screen
Screen ==
  IF PipelineThrows
    THEN Crashed
    ELSE [status |-> "shown", groupedProps |-> groupedProps,
          filteredData |-> filteredData, cards |-> Cards,
          displayedResults |-> DisplayedResults]

-----------------------------------------------------------------------------
(* Grouping and the all-props view: inputs and events *)

varsControl == <<selectedDate, loading, isScraping, autoRefresh, error,
                 todayReq, interval, inflight, scrape, nextId, latestOk,
                 lastOp>>

\* the component once its first batch has arrived
InitLoaded ==
  /\ selectedDate = "d1"
  /\ loading = FALSE /\ isScraping = FALSE /\ autoRefresh = FALSE
  /\ error = NoError
  /\ todayReq = "settled"
  /\ interval = NoInterval
  /\ inflight = {}
  /\ scrape = Idle
  /\ nextId = 2
  /\ latestOk = TRUE
  /\ lastOp = "fetchOk"

\* the sequences over S of length at most n
SeqsUpTo(S, n) == UNION {[1..m -> S] : m \in 0..n}

PlayerA == Str(<<"a">>)
PlayerAB == Str(<<"a", "-", "b">>)
PlayerB == Str(<<"B">>)
TypeP == Str(<<"p">>)
TypeBP == Str(<<"b", "-", "p">>)

\* a quote of /props; its odds go with its line
Quote(player, propType, sportsbook, line) ==
  [player |-> player, prop_type |-> propType, game |-> Str(<<"G">>),
   team |-> Str(<<"T">>), sportsbook |-> sportsbook, line |-> Num(line),
   over_odds |-> Num(-(90 + line)), under_odds |-> Num(line - 130)]

\* quotes of one pair from both sportsbooks with lines that agree and differ,
\* a sportsbook name in two spellings, two pairs that spell the same key,
\* a quote without a sportsbook and a quote without a player
QuoteUniverse ==
  {Quote(PlayerA, TypeP, DraftKings, 20),
   Quote(PlayerA, TypeP, FanDuel, 21),
   Quote(PlayerA, TypeP, Str(draftkings), 21),
   Quote(PlayerA, TypeP, FanDuel, 20),
   Quote(PlayerA, TypeBP, DraftKings, 20),
   Quote(PlayerAB, TypeP, FanDuel, 21),
   Quote(PlayerB, TypeP, DraftKings, 20),
   Quote(PlayerB, TypeP, Undefined, 20),
   Quote(Undefined, TypeP, FanDuel, 20)}

\* the options of the sportsbook select
BookOptions == {AllOption, DraftKings, FanDuel}

InitGroup ==
  /\ InitLoaded
  /\ InitStakesIdle
  /\ allProps \in SeqsUpTo(QuoteUniverse, MaxQuotes)
  /\ arbitrage = Empty /\ discrepancies = Empty /\ bestOdds = Empty
  /\ valueBets = Empty /\ consensusBets = Empty
  /\ activeTab = "all"
  /\ searchQuery = Str(<<>>)
  /\ selectedPropType = AllOption
  /\ selectedBook = AllOption
  /\ sortBy = "profit"
  /\ showFavorites = FALSE
  /\ favorites = <<>>
  /\ storage = Null
  /\ screen = Pending
  /\ marked = {}

\* whether the component is on the screen with its controls, rendered from
\* the present state
Mounted == screen.status = "shown"

\* the render that follows a change of state: each handler below asks for
\* one, and no other event is handled before it has happened
Render ==
  /\ screen = Pending
  /\ screen' = Screen
  /\ arbitrage' = StoredAfter("arbitrage", arbitrage)
  /\ valueBets' = StoredAfter("value", valueBets)
  /\ consensusBets' = StoredAfter("consensus", consensusBets)
  /\ bestOdds' = StoredAfter("best-odds", bestOdds)
  /\ discrepancies' = StoredAfter("discrepancies", discrepancies)
  /\ UNCHANGED <<allProps, activeTab, searchQuery, selectedPropType,
                 selectedBook, sortBy, showFavorites, favorites, marked,
                 storage>>
  /\ UNCHANGED <<varsControl, varsStakes>>

\* onChange of the sportsbook select, which is enabled on four tabs
SetSelectedBook(b) ==
  /\ Mounted
  /\ activeTab \in BookTabs \cup {"all"}
  /\ selectedBook' = b
  /\ UNCHANGED <<activeTab, searchQuery, selectedPropType, sortBy,
                 showFavorites, favorites, marked, storage>>
  /\ UnchangedCollections
  /\ UNCHANGED <<varsControl, varsStakes>>
  /\ screen' = Pending

NextGroup ==
  \/ Render
  \/ \E b \in BookOptions : SetSelectedBook(b)

SpecGroup == InitGroup /\ [][NextGroup]_vars

-----------------------------------------------------------------------------
(* The view criteria and the favorites: inputs and events *)

\* what one row of the snapshot gives to each of the six collections
Row(player, propType, book, rank) ==
  [player |-> player, prop_type |-> propType, best_book |-> book,
   rank |-> rank]

\* two rows of equal rank whose pairs spell the same key, and one of a lower
\* rank
RowUniverse ==
  {Row(PlayerA, TypeBP, DraftKings, 2),
   Row(PlayerAB, TypeP, FanDuel, 2),
   Row(PlayerB, TypeP, DraftKings, 1)}

\* the fields filteredData reads of a record of each collection
ArbitrageOf(r) ==
  [player |-> r.player, prop_type |-> r.prop_type,
   profit_percent |-> Num(r.rank)]
ValueBetOf(r) ==
  [player |-> r.player, prop_type |-> r.prop_type, best_book |-> r.best_book,
   edge_percent |-> Num(r.rank)]
OddsGapOf(r) ==
  [player |-> r.player, prop_type |-> r.prop_type, best_book |-> r.best_book,
   odds_difference |-> Num(r.rank)]
DiscrepancyOf(r) ==
  [player |-> r.player, prop_type |-> r.prop_type,
   line_difference |-> Num(r.rank)]
QuoteOf(r) == Quote(r.player, r.prop_type, r.best_book, 20 + r.rank)

\* a snapshot of up to MaxRecords rows in the six collections
InitSnapshot ==
  \E rows \in SeqsUpTo(RowUniverse, MaxRecords) :
    /\ allProps = [i \in DOMAIN rows |-> QuoteOf(rows[i])]
    /\ arbitrage = [i \in DOMAIN rows |-> ArbitrageOf(rows[i])]
    /\ valueBets = [i \in DOMAIN rows |-> ValueBetOf(rows[i])]
    /\ consensusBets = [i \in DOMAIN rows |-> OddsGapOf(rows[i])]
    /\ bestOdds = [i \in DOMAIN rows |-> OddsGapOf(rows[i])]
    /\ discrepancies = [i \in DOMAIN rows |-> DiscrepancyOf(rows[i])]

InitView ==
  /\ InitLoaded
  /\ InitStakesIdle
  /\ InitSnapshot
  /\ InitViewIdle

\* the texts typed into the search box
Queries == {Str(<<>>), Str(<<"B">>)}

\* the options of the prop type select
propTypes ==
  {AllOption}
    \cup {allProps[i].prop_type : i \in DOMAIN allProps}
    \cup {valueBets[i].prop_type : i \in DOMAIN valueBets}
    \cup {consensusBets[i].prop_type : i \in DOMAIN consensusBets}

\* onClick of a tab button
SetActiveTab(tab) ==
  /\ Mounted
  /\ activeTab' = tab
  /\ UNCHANGED <<searchQuery, selectedPropType, selectedBook, sortBy,
                 showFavorites, favorites, marked, storage>>
  /\ UnchangedCollections
  /\ UNCHANGED <<varsControl, varsStakes>>
  /\ screen' = Pending

\* onChange of the search box
SetSearchQuery(q) ==
  /\ Mounted
  /\ searchQuery' = q
  /\ UNCHANGED <<activeTab, selectedPropType, selectedBook, sortBy,
                 showFavorites, favorites, marked, storage>>
  /\ UnchangedCollections
  /\ UNCHANGED <<varsControl, varsStakes>>
  /\ screen' = Pending

\* onChange of the prop type select
SetSelectedPropType(t) ==
  /\ Mounted
  /\ t \in propTypes
  /\ selectedPropType' = t
  /\ UNCHANGED <<activeTab, searchQuery, selectedBook, sortBy, showFavorites,
                 favorites, marked, storage>>
  /\ UnchangedCollections
  /\ UNCHANGED <<varsControl, varsStakes>>
  /\ screen' = Pending

\* onChange of the sort select
SetSortBy(by) ==
  /\ Mounted
  /\ sortBy' = by
  /\ UNCHANGED <<activeTab, searchQuery, selectedPropType, selectedBook,
                 showFavorites, favorites, marked, storage>>
  /\ UnchangedCollections
  /\ UNCHANGED <<varsControl, varsStakes>>
  /\ screen' = Pending

\* onClick of the Favorites button
ToggleShowFavorites ==
  /\ Mounted
  /\ showFavorites' = ~showFavorites
  /\ UNCHANGED <<activeTab, searchQuery, selectedPropType, selectedBook,
                 sortBy, favorites, marked, storage>>
  /\ UnchangedCollections
  /\ UNCHANGED <<varsControl, varsStakes>>
  /\ screen' = Pending

NextView ==
  \/ Render
  \/ \E tab \in Tabs : SetActiveTab(tab)
  \/ \E q \in Queries : SetSearchQuery(q)
  \/ \E t \in {AllOption, TypeP, TypeBP} : SetSelectedPropType(t)
  \/ \E b \in BookOptions : SetSelectedBook(b)
  \/ \E by \in {"profit", "player"} : SetSortBy(by)

SpecView == InitView /\ [][NextView]_vars

\* what the server gives as the ranking field of a record: a number, null, or
\* nothing at all (Undefined: the record comes without the field)
RankValues == {Num(2), Num(-1), Null, Undefined}

\* a record of one of the five ranked collections
Record(player, field, rank) ==
  LET known == [player |-> player, prop_type |-> TypeP,
                best_book |-> DraftKings]
  IN  IF rank = Undefined THEN known ELSE known @@ (field :> rank)

\* a snapshot of up to MaxRecords records, any of them without a number in
\* its ranking field
InitRank ==
  /\ InitLoaded
  /\ InitStakesIdle
  /\ InitViewIdle
  /\ \E players \in SeqsUpTo({PlayerA, PlayerB}, MaxRecords) :
       \E ranks \in [DOMAIN players -> RankValues] :
         /\ allProps = [i \in DOMAIN players |->
                          Quote(players[i], TypeP, DraftKings, 20)]
         /\ arbitrage = [i \in DOMAIN players |->
                           Record(players[i], "profit_percent", ranks[i])]
         /\ valueBets = [i \in DOMAIN players |->
                           Record(players[i], "edge_percent", ranks[i])]
         /\ consensusBets = [i \in DOMAIN players |->
                               Record(players[i], "odds_difference", ranks[i])]
         /\ bestOdds = [i \in DOMAIN players |->
                          Record(players[i], "odds_difference", ranks[i])]
         /\ discrepancies = [i \in DOMAIN players |->
                               Record(players[i], "line_difference", ranks[i])]

NextRank ==
  \/ Render
  \/ \E tab \in Tabs : SetActiveTab(tab)
  \/ \E by \in {"profit", "player"} : SetSortBy(by)

SpecRank == InitRank /\ [][NextRank]_vars

RECURSIVE JsonChars(_)
\* the characters of a string inside a JSON string literal
JsonChars(cs) ==
  IF cs = <<>>
    THEN <<>>
    ELSE (IF Head(cs) \in {"\"", "\\"} THEN <<"\\", Head(cs)>> ELSE <<Head(cs)>>)
           \o JsonChars(Tail(cs))

RECURSIVE JsonItems(_)
\* the elements of a JSON array of strings, separated by commas
JsonItems(list) ==
  IF list = <<>>
    THEN <<>>
    ELSE <<"\"">> \o JsonChars(list[1].s) \o <<"\"">>
           \o (IF Len(list) > 1 THEN <<",">> ELSE <<>>)
           \o JsonItems(Tail(list))

\* JSON.stringify of an array of strings
stringify(list) == Str(<<"[">> \o JsonItems(list) \o <<"]">>)

\* variant of Without whose test is f === key
Without_Inverted(list, key) == SelectSeq(list, LAMBDA f : StrictEq(f, key))

\* favorites.filter(f => f !== key)
Without(list, key) == SelectSeq(list, LAMBDA f : ~StrictEq(f, key))

\* variant of toggleFavorite that stores the list of the closure,
\* JSON.stringify(favorites)
toggleFavorite_StoresOld(player, propType) ==
  LET key == Key(player, propType)
      newFavorites == IF isFavorite(player, propType)
                        THEN Without(favorites, key)
                        ELSE Append(favorites, key)
  IN  /\ favorites' = newFavorites
      /\ storage' = stringify(favorites)
      /\ marked' = IF <<player, propType>> \in marked
                     THEN marked \ {<<player, propType>>}
                     ELSE marked \cup {<<player, propType>>}

\* toggleFavorite(player, propType); marked keeps the pairs it has been
\* called with an odd number of times
toggleFavorite(player, propType) ==
  LET key == Key(player, propType)
      newFavorites == IF isFavorite(player, propType)
                        THEN Without(favorites, key)
                        ELSE Append(favorites, key)
  IN  /\ favorites' = newFavorites
      /\ storage' = stringify(newFavorites)
      /\ marked' = IF <<player, propType>> \in marked
                     THEN marked \ {<<player, propType>>}
                     ELSE marked \cup {<<player, propType>>}

\* onClick of the star of the n-th card
ToggleFavorite(n) ==
  /\ Mounted
  /\ n \in DOMAIN screen.cards
  /\ toggleFavorite(screen.cards[n].player,
                    IF activeTab = "all" THEN screen.cards[n].propType
                                         ELSE screen.cards[n].prop_type)
  /\ UNCHANGED <<activeTab, searchQuery, selectedPropType, selectedBook,
                 sortBy, showFavorites>>
  /\ UnchangedCollections
  /\ UNCHANGED <<varsControl, varsStakes>>
  /\ screen' = Pending

NextFav ==
  \/ Render
  \/ \E tab \in Tabs : SetActiveTab(tab)
  \/ ToggleShowFavorites
  \/ \E n \in 1..MaxRecords : ToggleFavorite(n)

SpecFav == InitView /\ [][NextFav]_vars

-----------------------------------------------------------------------------
(* The favorites across the life of the component: the stored entry, the
   stars, and the requests *)

RECURSIVE StringEnd(_, _)
\* the place of the quote that closes the string literal whose characters
\* start at i
StringEnd(cs, i) ==
  IF cs[i] = "\""
    THEN i
    ELSE StringEnd(cs, IF cs[i] = "\\" THEN i + 2 ELSE i + 1)

RECURSIVE Unescape(_)
\* the characters a string literal stands for
Unescape(cs) ==
  IF cs = <<>>
    THEN <<>>
    ELSE IF Head(cs) = "\\"
           THEN <<cs[2]>> \o Unescape(SubSeq(cs, 3, Len(cs)))
           ELSE <<Head(cs)>> \o Unescape(Tail(cs))

RECURSIVE ParseItems(_, _)
\* the elements of a JSON array of strings from place i on, which holds the
\* opening quote of an element or the closing bracket
ParseItems(cs, i) ==
  IF cs[i] = "]"
    THEN <<>>
    ELSE LET e == StringEnd(cs, i + 1)
         IN  <<Str(Unescape(SubSeq(cs, i + 1, e - 1)))>>
               \o ParseItems(cs, IF cs[e + 1] = "," THEN e + 2 ELSE e + 1)

\* JSON.parse of a text that JSON.stringify has made of an array of strings
parse(text) == ParseItems(text.s, 2)

\* the pairs of the cards whose stars are clicked
StarPairs == {<<PlayerA, TypeP>>, <<PlayerB, TypeP>>}

\* what an earlier visit can have left under 'favorites' in localStorage:
\* nothing, or the text toggleFavorite wrote of a list without repetition
StoredFavorites ==
  {Null} \cup
    {stringify(list) :
       list \in {l \in SeqsUpTo({Key(pair[1], pair[2]) : pair \in StarPairs},
                               Cardinality(StarPairs)) :
                   \A i, j \in DOMAIN l : l[i] = l[j] => i = j}}

\* the component once its mount effect has run: the request for the date is
\* out, and the stored favorites, if any, are loaded
InitStore ==
  /\ InitDash
  /\ InitStakesIdle
  /\ activeTab = "arbitrage"
  /\ searchQuery = Str(<<>>)
  /\ selectedPropType = AllOption
  /\ selectedBook = AllOption
  /\ sortBy = "profit"
  /\ showFavorites = FALSE
  /\ storage \in StoredFavorites
  /\ favorites = IF Truthy(storage) THEN parse(storage) ELSE <<>>
  /\ screen = Pending
  /\ marked = {}

\* onClick of the star of a card of the arbitrage list, which is on the screen
\* when the list has records and no scrape is running
StarClick(player, propType) ==
  /\ ControlsRendered
  /\ ~isScraping
  /\ arbitrage # Empty
  /\ toggleFavorite(player, propType)
  /\ UNCHANGED <<activeTab, searchQuery, selectedPropType, selectedBook,
                 sortBy, showFavorites, screen>>
  /\ UnchangedCollections
  /\ UNCHANGED <<varsControl, varsStakes>>

NextStore ==
  \/ \E ok \in BOOLEAN, d \in Dates : TodayResolve(ok, d)
  \/ \E d \in Dates \cup {NoDate} : ChangeDate(d)
  \/ HandleFullRefresh
  \/ TriggerSucceeded
  \/ \E out \in TriggerOutcomes : TriggerFailed(out)
  \/ \E f \in inflight, why \in FetchOutcomes : CompleteFetch(f, why)
  \/ \E pair \in StarPairs : StarClick(pair[1], pair[2])

SpecStore == InitStore /\ [][NextStore]_vars

-----------------------------------------------------------------------------
(* Properties of the component *)

Collections == <<allProps, arbitrage, discrepancies, bestOdds, valueBets,
                 consensusBets>>
AllEmpty == \A i \in 1..6 : Collections[i] = Empty
\* the fetchAllData call a collection was taken from (0: from none)
BatchOf(c) == IF c = Empty THEN 0 ELSE c[1].batch

\* C1: right after a batch with a failed request completes, all six
\* collections are empty and the error is set; and in every state the six
\* collections come from one and the same batch, or are all empty.
C1_AllOrNothing ==
  /\ lastOp = "fetchFailed" => AllEmpty /\ error # NoError
  /\ \A i, j \in 1..6 : BatchOf(Collections[i]) = BatchOf(Collections[j])

\* a batch fails after an earlier batch had begun, while a later one is
\* still in flight
C1_Witness ==
  /\ lastOp = "fetchFailed"
  /\ error = ErrEndpoints
  /\ AllEmpty
  /\ inflight # {}

\* C2: while isScraping is true no interval is armed, and the handler that ran
\* last is not a timer tick (no periodic fetchAllData starts during a scrape).
C2_AutoRefreshSuppressed ==
  isScraping => interval = NoInterval /\ lastOp # "timerTick"

\* auto-refresh is switched on during a scrape, with a date selected
C2_Witness ==
  /\ isScraping
  /\ autoRefresh
  /\ selectedDate # NoDate
  /\ interval = NoInterval

\* C3: a timer tick never starts a batch fetch while another one is in flight
\* (single-flight).
C3_SingleFlight == lastOp = "timerTick" => Cardinality(inflight) = 1

\* C4: once overlapping fetches have all completed and the call started last
\* has succeeded, a successful completion leaves the six collections holding
\* the results of the call started last.
C4_NewestWins ==
  (inflight = {} /\ latestOk /\ lastOp = "fetchOk")
    => \A i \in 1..6 : BatchOf(Collections[i]) = nextId - 1

\* C5: handleFullRefresh with a failing trigger: neither its start nor its end
\* changes one of the six collections, its end sets the error to the trigger's
\* failure message and starts no fetchAllData call.
C5_TriggerFailureFrame ==
  [][/\ (scrape.phase = "idle" /\ scrape'.phase = "trigger")
          => Collections' = Collections
     /\ (scrape.phase = "trigger" /\ scrape'.phase = "idle")
          => /\ Collections' = Collections
             /\ error' \in {ErrScraperServer, ErrScraperDefault,
                            ErrScraperNetwork}
             /\ inflight' = inflight
             /\ nextId' = nextId]_vars

\* the trigger failed while a snapshot was on display
C5_Witness ==
  /\ lastOp = "triggerFailed"
  /\ ~AllEmpty
  /\ error = ErrScraperServer
  /\ ~isScraping

-----------------------------------------------------------------------------
(* Properties of the stake arithmetic *)

\* a legal American odds value: a number other than zero
ValidOdds(v) == v.k = "fin" /\ v.n # 0
ValidInputs == ValidOdds(overOdds) /\ ValidOdds(underOdds)

\* the reference decimal multiplier as a fraction: a/100 + 1 = (a + 100)/100
\* for a > 0, and 100/|a| + 1 = (100 + |a|)/|a| for a < 0
RefDecN(a) == IF a > 0 THEN a + 100 ELSE 100 + Abs(a)
RefDecD(a) == IF a > 0 THEN 100 ELSE Abs(a)
RefDec(v) == Norm(RefDecN(v.n), RefDecD(v.n))

\* C6: for valid odds the payout is balanced, stakeOver * dec(o) =
\* stakeUnder * dec(u), and so the returned profit is the profit of either
\* outcome.
C6_BalancedPayout ==
  (stage # "input" /\ ValidInputs) =>
    /\ JMul(stakes.stakeOver, RefDec(overOdds))
         = JMul(stakes.stakeUnder, RefDec(underOdds))
    /\ stakes.profit
         = JSub(JMul(stakes.stakeUnder, RefDec(underOdds)), totalStake)

\* the odds pair (150, -170): unequal multipliers, unequal stakes
C6_Witness ==
  /\ stage = "computed"
  /\ overOdds = Num(150) /\ underOdds = Num(-170)
  /\ stakes.stakeOver # stakes.stakeUnder

C8_ReferenceFormula ==
  (stage # "input" /\ ValidInputs) =>
    LET nO == RefDecN(overOdds.n)
        eO == RefDecD(overOdds.n)
        nU == RefDecN(underOdds.n)
        eU == RefDecD(underOdds.n)
        D == nU * eO + nO * eU
        S == totalStake
    IN  /\ stakes.stakeOver = Norm(S.n * nU * eO, S.d * D)
        /\ stakes.stakeUnder = Norm(S.n * nO * eU, S.d * D)
        /\ stakes.profit = Norm(S.n * (nO * nU - D), S.d * D)
        /\ (stakes.profit.n < 0) <=> (D > nO * nU)

\* a pair of odds that is no arbitrage: the profit is negative
C8_Witness ==
  /\ stage = "computed"
  /\ ValidInputs
  /\ stakes.profit.k = "fin" /\ stakes.profit.n < 0

CardOf150And170 ==
  stage = "shown" /\ overOdds = Num(150) /\ underOdds = Num(-170)

\* C9 as stated: the card for the odds (150, -170) and a stake of 100 shows
\* stakeOver 38.83, stakeUnder 61.17 and profit -2.92.
C9_SpecExample ==
  CardOf150And170 =>
    shown = [stakeOver |-> [k |-> "fixed", cents |-> 3883],
             stakeUnder |-> [k |-> "fixed", cents |-> 6117],
             profit |-> [k |-> "fixed", cents |-> -292]]

\* C9 as amended: the card for the odds (150, -170) and a stake of 100 shows
\* stakeOver 38.85, stakeUnder 61.15 and profit -2.88.
C9_CodeExample ==
  CardOf150And170 =>
    shown = [stakeOver |-> [k |-> "fixed", cents |-> 3885],
             stakeUnder |-> [k |-> "fixed", cents |-> 6115],
             profit |-> [k |-> "fixed", cents |-> -288]]

\* the card of that pair has been rendered from stakes 5400/139 and 8500/139
C9_Witness ==
  /\ CardOf150And170
  /\ stakes.stakeOver = Norm(5400, 139)
  /\ stakes.stakeUnder = Norm(8500, 139)

\* the outcome the design asks for when an odds value is not legal
InvalidOdds == [outcome |-> "InvalidOdds"]

\* C10: when an odds argument is the number 0, the conversion yields the
\* InvalidOdds outcome (it does not compute 100/|0| + 1).
C10_ZeroRejected ==
  (stage # "input" /\ (overOdds = Num(0) \/ underOdds = Num(0)))
    => stakes = InvalidOdds

\* an odds argument that is missing: null, or absent from the record
Missing(v) == v.k \in {"null", "undefined"}

\* C11: when either odds argument is missing, whether null or absent
\* (undefined), the result is exactly {stakeOver 0, stakeUnder 0, profit 0}.
C11_MissingOddsZero ==
  (stage # "input" /\ (Missing(overOdds) \/ Missing(underOdds)))
    => stakes = ZeroStakes

-----------------------------------------------------------------------------
(* Properties of the grouping and of the all-props view *)

Max(S) == CHOOSE x \in S : \A y \in S : y <= x
Min(S) == CHOOSE x \in S : \A y \in S : x <= y

\* the lists are on the screen
Shown == screen.status = "shown"

QuoteKey(i) == Key(allProps[i].player, allProps[i].prop_type)
GroupKey(g) == Key(g.player, g.propType)
\* the quotes that were merged into the group g
GroupQuotes(g) == {i \in DOMAIN allProps : QuoteKey(i) = GroupKey(g)}
\* the group the i-th quote was merged into
GroupOf(i) ==
  CHOOSE n \in DOMAIN screen.groupedProps :
    GroupKey(screen.groupedProps[n]) = QuoteKey(i)
\* the (player, propType) pair of the i-th quote
QuotePair(i) == <<allProps[i].player, allProps[i].prop_type>>

\* C12: two quotes are merged into the same group exactly when they have the
\* same player and the same propType, and there are as many groups as there
\* are distinct (player, propType) pairs among the quotes.
C12_GroupingIdentity ==
  Shown =>
    /\ \A i, j \in DOMAIN allProps :
         (GroupOf(i) = GroupOf(j)) <=> (QuotePair(i) = QuotePair(j))
    /\ Len(screen.groupedProps)
         = Cardinality({QuotePair(i) : i \in DOMAIN allProps})

\* C13: the groups are listed in the order in which their keys first appear
\* among the quotes, one group per key.
C13_FirstSeenOrder ==
  Shown =>
    LET g == screen.groupedProps
        FirstSeen(n) == Min(GroupQuotes(g[n]))
    IN  /\ {GroupKey(g[n]) : n \in DOMAIN g}
             = {QuoteKey(i) : i \in DOMAIN allProps}
        /\ \A n \in DOMAIN g : GroupQuotes(g[n]) # {}
        /\ \A m, n \in DOMAIN g : m < n => FirstSeen(m) < FirstSeen(n)

\* the quotes of B, a, B give the groups of B and a, in that order
C13_Witness ==
  /\ Shown
  /\ Len(allProps) = 3
  /\ allProps[1].player = PlayerB
  /\ allProps[2].player = PlayerA
  /\ allProps[3].player = PlayerB
  /\ Len(screen.groupedProps) = 2
  /\ screen.groupedProps[1].player = PlayerB
  /\ screen.groupedProps[2].player = PlayerA

\* C14: the books of a group hold exactly one entry per lower-cased sportsbook
\* name among the group's quotes (names that differ in case only share one),
\* and an entry holds the line and the odds of the last such quote.
C14_BooksPerLowerCasedName ==
  Shown =>
    \A n \in DOMAIN screen.groupedProps :
      LET g == screen.groupedProps[n]
          Name(i) == toLowerCase(allProps[i].sportsbook).s
          Last(b) == Max({i \in GroupQuotes(g) : Name(i) = b})
      IN  /\ DOMAIN g.books = {Name(i) : i \in GroupQuotes(g)}
          /\ \A b \in DOMAIN g.books :
               g.books[b] = [line |-> allProps[Last(b)].line,
                             overOdds |-> allProps[Last(b)].over_odds,
                             underOdds |-> allProps[Last(b)].under_odds]

\* a quote of DraftKings at 20 and a later one of draftkings at 21 share the
\* entry draftkings, which holds 21
C14_Witness ==
  /\ Shown
  /\ Len(allProps) = 2
  /\ allProps[1] = Quote(PlayerA, TypeP, DraftKings, 20)
  /\ allProps[2] = Quote(PlayerA, TypeP, Str(draftkings), 21)
  /\ Len(screen.groupedProps) = 1
  /\ DOMAIN screen.groupedProps[1].books = {draftkings}
  /\ screen.groupedProps[1].books[draftkings].line = Num(21)

\* C15: grouping has no error outcome: it completes for every list of quotes,
\* quotes with a missing field included.
C15_GroupingTotal == screen # Crashed

\* C16: a row of the all-props view carries the LINE MISMATCH flag exactly
\* when its group has a quote of draftkings and a quote of fanduel and the
\* lines of the last quote of each differ; with either missing it carries none.
C16_LineMismatchFlag ==
  (Shown /\ activeTab = "all") =>
    \A n \in DOMAIN screen.cards :
      LET card == screen.cards[n]
          Of(b) == {i \in GroupQuotes(card) :
                      toLowerCase(allProps[i].sportsbook).s = b}
      IN  card.lineMismatch <=>
            /\ Of(draftkings) # {} /\ Of(fanduel) # {}
            /\ allProps[Max(Of(draftkings))].line
                 # allProps[Max(Of(fanduel))].line

\* with DraftKings selected, a row whose two lines differ is flagged and a row
\* that has the DraftKings quote only is not
C16_Witness ==
  /\ Shown
  /\ activeTab = "all"
  /\ selectedBook = DraftKings
  /\ Len(screen.cards) = 2
  /\ screen.cards[1].lineMismatch
  /\ ~screen.cards[2].lineMismatch
  /\ DOMAIN screen.filteredData[2].books = {draftkings}

-----------------------------------------------------------------------------
(* Properties of the filters and of the sort *)

\* the text occurs in the player name when the case of the letters is ignored
ContainsIgnoringCase(player, text) ==
  \E i \in 0..(Len(player.s) - Len(text.s)) :
    \A j \in 1..Len(text.s) :
      toLowerChar(player.s[i + j]) = toLowerChar(text.s[j])

\* the prop type of a record: propType of a group, prop_type of the others
RecordType(item) ==
  IF activeTab = "all" THEN item.propType ELSE item.prop_type

\* C17: in every category the records left by the text and prop type filters
\* are exactly the records of the base collection, in their order, whose
\* player contains searchQuery whatever the case (all when it is empty) and
\* whose prop type equals selectedPropType (all when it is "all"); with the
\* other two filters off they are the records of the output.
C17_TextAndTypeFilters ==
  Shown =>
    LET Kept(item) ==
          /\ ContainsIgnoringCase(item.player, searchQuery)
          /\ selectedPropType = AllOption
               \/ RecordType(item) = selectedPropType
        expected == SelectSeq(BaseData, Kept)
        out == screen.filteredData
    IN  /\ Typed = expected
        /\ (~showFavorites /\ selectedBook = AllOption) =>
             /\ Len(out) = Len(expected)
             /\ {out[i] : i \in DOMAIN out}
                  = {expected[i] : i \in DOMAIN expected}
             /\ activeTab = "all" => out = expected

\* the value bets of a, a-b and B, searched for "B" with the prop type p: the
\* bets of a-b and B are left, in that order
C17_Witness ==
  /\ Shown
  /\ activeTab = "value"
  /\ searchQuery = Str(<<"B">>)
  /\ selectedPropType = TypeP
  /\ selectedBook = AllOption
  /\ Len(valueBets) = 3
  /\ valueBets[1].player = PlayerA
  /\ Len(screen.filteredData) = 2
  /\ Typed[1].player = PlayerAB
  /\ Typed[2].player = PlayerB

\* C18: with showFavorites on, a record passes the favorites filter, and is
\* in the output, only when its own (player, propType) pair has been toggled
\* on and not off, and every record of such a pair passes; a record never
\* passes because another pair was toggled.
C18_FavoritesFilter ==
  (Shown /\ showFavorites) =>
    /\ Favored = SelectSeq(Typed, LAMBDA item :
                   <<item.player, RecordType(item)>> \in marked)
    /\ \A i \in DOMAIN screen.filteredData :
         <<screen.filteredData[i].player,
           RecordType(screen.filteredData[i])>> \in marked

\* C19: in the value, consensus and best-odds categories a record passes the
\* sportsbook filter exactly when selectedBook is "all" or equals its
\* best_book; in the arbitrage, discrepancies and all categories the cards on
\* the screen are the records left by the other filters whatever selectedBook
\* is, as many as the displayed results count says.
C19_BookFilterScope ==
  Shown =>
    /\ activeTab \in BookTabs =>
         /\ Booked = SelectSeq(Favored, LAMBDA item :
                       selectedBook = AllOption
                         \/ item.best_book = selectedBook)
         /\ Len(screen.filteredData) = Len(Booked)
    /\ activeTab \in Tabs \ BookTabs =>
         /\ Len(screen.filteredData) = Len(Favored)
         /\ Len(screen.cards) = Len(Favored)
         /\ Len(screen.cards) = screen.displayedResults

\* the ranking field of the records of the active category
RankField ==
  CASE activeTab = "arbitrage" -> "profit_percent"
    [] activeTab = "value" -> "edge_percent"
    [] activeTab \in {"consensus", "best-odds"} -> "odds_difference"
    [] activeTab = "discrepancies" -> "line_difference"
Rank(item) == item[RankField]
Finite(v) == v.k = "fin"

\* C20: sorted by value, the output of the five ranked categories is in
\* non-increasing order of the ranking field (fields all finite), and the
\* records of one ranking value are in the order the filters left them in.
C20_SortByValue ==
  (Shown /\ activeTab \in SortedTabs /\ sortBy = "profit"
     /\ \A i \in DOMAIN Booked : Finite(Rank(Booked[i]))) =>
    LET out == screen.filteredData
    IN  /\ Len(out) = Len(Booked)
        /\ \A i, j \in DOMAIN out :
             i < j =>
               Rank(out[i]).n * Rank(out[j]).d
                 >= Rank(out[j]).n * Rank(out[i]).d
        /\ \A i \in DOMAIN out :
             SelectSeq(out, LAMBDA x : Rank(x) = Rank(out[i]))
               = SelectSeq(Booked, LAMBDA x : Rank(x) = Rank(out[i]))

\* the arbitrage records of B (1), a (2) and a-b (2) come out as a, a-b, B
C20_Witness ==
  /\ Shown
  /\ activeTab = "arbitrage"
  /\ sortBy = "profit"
  /\ Len(arbitrage) = 3
  /\ arbitrage[1].player = PlayerB
  /\ arbitrage[2].player = PlayerA
  /\ arbitrage[3].player = PlayerAB
  /\ Len(screen.filteredData) = 3
  /\ screen.filteredData[1].player = PlayerA
  /\ screen.filteredData[2].player = PlayerAB
  /\ screen.filteredData[3].player = PlayerB

\* whether the players of out are in ascending alphabetical order
AscendingByPlayer(out) ==
  \A i, j \in DOMAIN out :
    i < j => localeCompare(out[i].player, out[j].player).n <= 0

\* C21: sorted by player, the output of each of the six categories, the
\* all-props category included, is in ascending alphabetical order of player.
C21_SortByPlayer ==
  (Shown /\ sortBy = "player") => AscendingByPlayer(screen.filteredData)

\* C22: sorted by value, a record whose ranking field is missing or not a
\* finite number never comes before a record whose ranking field is finite
\* (negative values included), the records with finite fields are in
\* non-increasing order, and the render does not fail.
C22_UnrankableLast ==
  /\ screen # Crashed
  /\ (Shown /\ activeTab \in SortedTabs /\ sortBy = "profit") =>
       LET out == screen.filteredData
           rank(i) == Get(out[i], RankField)
       IN  \A i, j \in DOMAIN out :
             (i < j /\ Finite(rank(j))) =>
               /\ Finite(rank(i))
               /\ rank(i).n * rank(j).d >= rank(j).n * rank(i).d

\* no filter is set
NoFilter ==
  /\ searchQuery = Str(<<>>)
  /\ selectedPropType = AllOption
  /\ selectedBook = AllOption
  /\ ~showFavorites

\* how many times x occurs in seq
Count(seq, x) == Cardinality({i \in DOMAIN seq : seq[i] = x})

\* whether out has the records of base, each as many times
SameRecords(out, base) ==
  /\ Len(out) = Len(base)
  /\ \A i \in DOMAIN base : Count(out, base[i]) = Count(base, base[i])

\* whether the records of base are in non-increasing order of ranking field
DescendingByValue(base) ==
  \A i, j \in DOMAIN base :
    i < j => Rank(base[i]).n * Rank(base[j]).d
               >= Rank(base[j]).n * Rank(base[i]).d

\* whether base is already in the order the sort step of the tab asks for
InSortOrder(base) ==
  \/ sortBy = "player" /\ AscendingByPlayer(base)
  \/ sortBy = "profit" /\ activeTab \in SortedTabs /\ DescendingByValue(base)

\* C23 as stated: with no filter set the output is the base collection of the
\* category, same records in the same order, whatever the category and the
\* sort key.
C23_IdentityAnyOrder ==
  (Shown /\ NoFilter) => screen.filteredData = BaseData

\* C23: with no filter set the output has the records of the base collection
\* of the category, each as many times; it is the base collection itself when
\* the base is already in the order of the sort key (player-sorted with sort
\* key "player", or by value in a ranked category), and when the base is
\* empty.
C23_Identity ==
  (Shown /\ NoFilter) =>
    /\ SameRecords(screen.filteredData, BaseData)
    /\ InSortOrder(BaseData) => screen.filteredData = BaseData
    /\ BaseData = <<>> => screen.filteredData = <<>>

\* the arbitrage records of a (2), a-b (2) and B (1), sorted by player, come
\* out as they are
C23_Witness ==
  /\ Shown
  /\ NoFilter
  /\ activeTab = "arbitrage"
  /\ sortBy = "player"
  /\ Len(arbitrage) = 3
  /\ arbitrage[1].player = PlayerA
  /\ arbitrage[2].player = PlayerAB
  /\ arbitrage[3].player = PlayerB
  /\ screen.filteredData = arbitrage

\* C24: the render that computes the view leaves the six stored collections
\* and the favorites as they were, content and order, and the grouped props
\* it has used are those of the collections it leaves.
C24_InputsUnchanged ==
  [][(screen = Pending /\ screen' # Pending) =>
       /\ Collections' = Collections
       /\ favorites' = favorites
       /\ screen'.status = "shown" => screen'.groupedProps = groupedProps]_vars

\* the arbitrage records of B (1) and a (2) are on the screen as a, B and in
\* the state as B, a
C24_Witness ==
  /\ Shown
  /\ NoFilter
  /\ activeTab = "arbitrage"
  /\ sortBy = "profit"
  /\ Len(arbitrage) = 2
  /\ arbitrage[1].player = PlayerB
  /\ arbitrage[2].player = PlayerA
  /\ screen.filteredData[1].player = PlayerA
  /\ screen.filteredData[2].player = PlayerB

-----------------------------------------------------------------------------
(* Properties of the favorites *)

\* the keys of the pairs a card can show
CardKeys ==
  {Key(r.player, r.prop_type) : r \in RowUniverse}

\* how many times toggleFavorite has been called with a pair of key k, odd or
\* even: marked holds the pairs toggled an odd number of times
ToggledOdd(k) ==
  Cardinality({pair \in marked : Key(pair[1], pair[2]) = k}) % 2 = 1

\* C25: starting from no favorites, a key is a favorite exactly when
\* toggleFavorite has been called an odd number of times with a pair of that
\* key: each call negates isFavorite of its pair, and two calls with one pair
\* leave every key as it was.
C25_ToggleRoundTrip ==
  /\ \A k \in CardKeys :
       (\E i \in DOMAIN favorites : favorites[i] = k) <=> ToggledOdd(k)
  /\ \A pair \in marked : Key(pair[1], pair[2]) \in CardKeys
  /\ \A r \in RowUniverse :
       isFavorite(r.player, r.prop_type)
         <=> ToggledOdd(Key(r.player, r.prop_type))

\* a pair has been toggled on and off again: the list is empty as it was at
\* first, and it has been written to the storage
C25_Witness ==
  /\ Shown
  /\ favorites = <<>>
  /\ storage = stringify(<<>>)
  /\ marked = {}

\* C26: through toggles, fetches, date changes and refreshes, the list in
\* memory has no key twice; a step that changes the list or the stored entry
\* is a toggle; and a toggle leaves in the storage the text of the list it
\* leaves in memory, so that the two are equal from the first toggle on.
C26_FavoritesPersisted ==
  /\ [](\A i, j \in DOMAIN favorites : favorites[i] = favorites[j] => i = j)
  /\ [](storage = Null => marked = {})
  /\ [](storage # Null => parse(storage) = favorites)
  /\ [][(favorites' # favorites \/ storage' # storage) => marked' # marked]_vars
  /\ [][marked' # marked => /\ storage' # Null
                             /\ parse(storage') = favorites']_vars

\* with a favorite loaded from the storage, a second one has been toggled on
\* and a batch has arrived since
C26_Witness ==
  /\ favorites = <<Key(PlayerB, TypeP), Key(PlayerA, TypeP)>>
  /\ storage = stringify(favorites)
  /\ marked = {<<PlayerA, TypeP>>}
  /\ lastOp = "fetchOk"
  /\ nextId > 2

-----------------------------------------------------------------------------
(* Properties of the requests *)

\* C27: no fetchAllData call, from the date effect, the timer or the Refresh
\* button, requests the batch of an empty date.
C27_NoFetchWithoutDate ==
  \A f \in inflight : f.date # NoDate

\* C28: after mount the request for the date settles, with or without a date
\* from the server; selectedDate is then a date, a batch fetch for that date
\* starts in the same turn, and when that fetch settles loading is false.
C28_DateResolved ==
  /\ <>(todayReq = "settled" /\ selectedDate # NoDate)
  /\ [][(todayReq = "pending" /\ todayReq' = "settled") =>
          /\ selectedDate' \in Dates
          /\ loading'
          /\ inflight' = {[id |-> 1, date |-> selectedDate', via |-> "date"]}]_vars
  /\ [][(\E f \in inflight : f \notin inflight') => ~loading']_vars
  /\ <>(~loading /\ \A f \in inflight : f.id # 1)

\* the first batch, fetched for the date the /today request gave, has arrived
C28_Witness ==
  /\ todayReq = "settled"
  /\ lastOp = "fetchOk"
  /\ selectedDate = "d1"
  /\ ~loading
  /\ nextId = 2
  /\ allProps = Payload("props", [id |-> 1, date |-> "d1", via |-> "date"])

\* C29: once the request for the date has settled, loading is true exactly
\* while a fetchAllData call has started and not finished, overlapping calls
\* included.  (Before that, loading is true with no call started.)
C29_LoadingIffInFlight ==
  todayReq = "settled" => (loading <=> inflight # {})

\* C30: a full refresh starts only when loading and isScraping are false, so
\* isScraping is true exactly while the one refresh is under way; a refresh
\* that has started sets isScraping back to false in the end, whether its
\* trigger fails, its batch fetch fails or both succeed; it turns autoRefresh
\* off when it starts and does not turn it on again.
C30_FullRefreshEnds ==
  /\ [](isScraping <=> scrape.phase # "idle")
  /\ [][lastOp' = "fullRefresh" =>
          /\ ~loading /\ ~isScraping
          /\ isScraping' /\ scrape'.phase = "trigger"
          /\ ~autoRefresh']_vars
  /\ isScraping ~> ~isScraping
  /\ [][(isScraping /\ ~isScraping') =>
          /\ lastOp' \in {"triggerFailed", "fetchOk", "fetchFailed"}
          /\ autoRefresh' = autoRefresh]_vars
  /\ [][(~autoRefresh /\ autoRefresh') => lastOp' = "toggleAuto"]_vars

\* a full refresh has ended with the failure of its trigger
C30_Witness ==
  /\ lastOp = "triggerFailed"
  /\ error = ErrScraperServer
  /\ ~isScraping
  /\ scrape = Idle
  /\ ~autoRefresh

====
